---- MODULE Spec2Model ----
(***************************************************************************)
(* A model of the caps crate (src/lib.rs): the Capability enumeration with *)
(* its Display and FromStr conversions, and the dispatch layer that routes *)
(* has_cap, read, set, clear, raise and drop to the POSIX-sets, Ambient    *)
(* and Bounding backends, which act on the kernel's per-thread capability  *)
(* state.  The backends (base, ambient, bounding) and the kernel calls     *)
(* they issue are modelled from the design description; the dispatch       *)
(* layer, the enumeration and the conversions are modelled from the code.  *)
(***************************************************************************)
EXTENDS Integers, FiniteSets, Sequences, TLC

VARIABLES
    k,        \* kernel state: thread -> capability set -> set of capabilities
    pre,      \* the kernel state when the last top-level call began
    last,     \* the last top-level call and its result
    pc,       \* "idle", "ambient_set" (ambient::set between two syscalls), "returned"
    todo,     \* capabilities ambient::set has still to raise
    mutated,  \* a signal handler changed the state during the last call
    conv      \* the Display / FromStr conversion in progress

vars == <<k, pre, last, pc, todo, mutated, conv>>

(***************************************************************************)
(* Capability: a #[repr(u8)] enum; a value is modelled by its discriminant *)
(* (the kernel's capability index).                                        *)
(***************************************************************************)
CAP_CHOWN == 0
CAP_DAC_OVERRIDE == 1
CAP_DAC_READ_SEARCH == 2
CAP_FOWNER == 3
CAP_FSETID == 4
CAP_KILL == 5
CAP_SETGID == 6
CAP_SETUID == 7
CAP_SETPCAP == 8
CAP_LINUX_IMMUTABLE == 9
CAP_NET_BIND_SERVICE == 10
CAP_NET_BROADCAST == 11
CAP_NET_ADMIN == 12
CAP_NET_RAW == 13
CAP_IPC_LOCK == 14
CAP_IPC_OWNER == 15
CAP_SYS_MODULE == 16
CAP_SYS_RAWIO == 17
CAP_SYS_CHROOT == 18
CAP_SYS_PTRACE == 19
CAP_SYS_PACCT == 20
CAP_SYS_ADMIN == 21
CAP_SYS_BOOT == 22
CAP_SYS_NICE == 23
CAP_SYS_RESOURCE == 24
CAP_SYS_TIME == 25
CAP_SYS_TTY_CONFIG == 26
CAP_MKNOD == 27
CAP_LEASE == 28
CAP_AUDIT_WRITE == 29
CAP_AUDIT_CONTROL == 30
CAP_SETFCAP == 31
CAP_MAC_OVERRIDE == 32
CAP_MAC_ADMIN == 33
CAP_SYSLOG == 34
CAP_WAKE_ALARM == 35
CAP_BLOCK_SUSPEND == 36
CAP_AUDIT_READ == 37

\* all(): every capability known to the crate.
all ==
    {
      CAP_CHOWN,
      CAP_DAC_OVERRIDE,
      CAP_DAC_READ_SEARCH,
      CAP_FOWNER,
      CAP_FSETID,
      CAP_KILL,
      CAP_SETGID,
      CAP_SETUID,
      CAP_SETPCAP,
      CAP_LINUX_IMMUTABLE,
      CAP_NET_BIND_SERVICE,
      CAP_NET_BROADCAST,
      CAP_NET_ADMIN,
      CAP_NET_RAW,
      CAP_IPC_LOCK,
      CAP_IPC_OWNER,
      CAP_SYS_MODULE,
      CAP_SYS_RAWIO,
      CAP_SYS_CHROOT,
      CAP_SYS_PTRACE,
      CAP_SYS_PACCT,
      CAP_SYS_ADMIN,
      CAP_SYS_BOOT,
      CAP_SYS_NICE,
      CAP_SYS_RESOURCE,
      CAP_SYS_TIME,
      CAP_SYS_TTY_CONFIG,
      CAP_MKNOD,
      CAP_LEASE,
      CAP_AUDIT_WRITE,
      CAP_AUDIT_CONTROL,
      CAP_SETFCAP,
      CAP_MAC_OVERRIDE,
      CAP_MAC_ADMIN,
      CAP_SYSLOG,
      CAP_WAKE_ALARM,
      CAP_BLOCK_SUSPEND,
      CAP_AUDIT_READ
    }

\* Capability::index(): the discriminant as u8.
index(c) == c

\* Result<Capability, Error> of a parse.
Ok_cap(c) == [kind |-> "Ok", cap |-> c]

Err_InvalidCapName(s) == [kind |-> "InvalidCapName", name |-> s]

\* impl Display for Capability: the match of fmt, arm by arm.
fmt(c) ==
    CASE c = CAP_CHOWN -> "CAP_CHOWN"
      [] c = CAP_DAC_OVERRIDE -> "CAP_DAC_OVERRIDE"
      [] c = CAP_DAC_READ_SEARCH -> "CAP_DAC_READ_SEARCH"
      [] c = CAP_FOWNER -> "CAP_FOWNER"
      [] c = CAP_FSETID -> "CAP_FSETID"
      [] c = CAP_KILL -> "CAP_KILL"
      [] c = CAP_SETGID -> "CAP_SETGID"
      [] c = CAP_SETUID -> "CAP_SETUID"
      [] c = CAP_SETPCAP -> "CAP_SETPCAP"
      [] c = CAP_LINUX_IMMUTABLE -> "CAP_LINUX_IMMUTABLE"
      [] c = CAP_NET_BIND_SERVICE -> "CAP_NET_BIND_SERVICE"
      [] c = CAP_NET_BROADCAST -> "CAP_NET_BROADCAST"
      [] c = CAP_NET_ADMIN -> "CAP_NET_ADMIN"
      [] c = CAP_NET_RAW -> "CAP_NET_RAW"
      [] c = CAP_IPC_LOCK -> "CAP_IPC_LOCK"
      [] c = CAP_IPC_OWNER -> "CAP_IPC_OWNER"
      [] c = CAP_SYS_MODULE -> "CAP_SYS_MODULE"
      [] c = CAP_SYS_RAWIO -> "CAP_SYS_RAWIO"
      [] c = CAP_SYS_CHROOT -> "CAP_SYS_CHROOT"
      [] c = CAP_SYS_PTRACE -> "CAP_SYS_PTRACE"
      [] c = CAP_SYS_PACCT -> "CAP_SYS_PACCT"
      [] c = CAP_SYS_ADMIN -> "CAP_SYS_ADMIN"
      [] c = CAP_SYS_BOOT -> "CAP_SYS_BOOT"
      [] c = CAP_SYS_NICE -> "CAP_SYS_NICE"
      [] c = CAP_SYS_RESOURCE -> "CAP_SYS_RESOURCE"
      [] c = CAP_SYS_TIME -> "CAP_SYS_TIME"
      [] c = CAP_SYS_TTY_CONFIG -> "CAP_SYS_TTY_CONFIG"
      [] c = CAP_MKNOD -> "CAP_MKNOD"
      [] c = CAP_LEASE -> "CAP_LEASE"
      [] c = CAP_AUDIT_WRITE -> "CAP_AUDIT_WRITE"
      [] c = CAP_AUDIT_CONTROL -> "CAP_AUDIT_CONTROL"
      [] c = CAP_SETFCAP -> "CAP_SETFCAP"
      [] c = CAP_MAC_OVERRIDE -> "CAP_MAC_OVERRIDE"
      [] c = CAP_MAC_ADMIN -> "CAP_MAC_ADMIN"
      [] c = CAP_SYSLOG -> "CAP_SYSLOG"
      [] c = CAP_WAKE_ALARM -> "CAP_WAKE_ALARM"
      [] c = CAP_BLOCK_SUSPEND -> "CAP_BLOCK_SUSPEND"
      [] c = CAP_AUDIT_READ -> "CAP_AUDIT_READ"

\* impl FromStr for Capability: the match of from_str, arm by arm.
from_str(s) ==
    CASE s = "CAP_CHOWN" -> Ok_cap(CAP_CHOWN)
      [] s = "CAP_DAC_OVERRIDE" -> Ok_cap(CAP_DAC_OVERRIDE)
      [] s = "CAP_DAC_READ_SEARCH" -> Ok_cap(CAP_DAC_READ_SEARCH)
      [] s = "CAP_FOWNER" -> Ok_cap(CAP_FOWNER)
      [] s = "CAP_FSETID" -> Ok_cap(CAP_FSETID)
      [] s = "CAP_KILL" -> Ok_cap(CAP_KILL)
      [] s = "CAP_SETGID" -> Ok_cap(CAP_SETGID)
      [] s = "CAP_SETUID" -> Ok_cap(CAP_SETUID)
      [] s = "CAP_SETPCAP" -> Ok_cap(CAP_SETPCAP)
      [] s = "CAP_LINUX_IMMUTABLE" -> Ok_cap(CAP_LINUX_IMMUTABLE)
      [] s = "CAP_NET_BIND_SERVICE" -> Ok_cap(CAP_NET_BIND_SERVICE)
      [] s = "CAP_NET_BROADCAST" -> Ok_cap(CAP_NET_BROADCAST)
      [] s = "CAP_NET_ADMIN" -> Ok_cap(CAP_NET_ADMIN)
      [] s = "CAP_NET_RAW" -> Ok_cap(CAP_NET_RAW)
      [] s = "CAP_IPC_LOCK" -> Ok_cap(CAP_IPC_LOCK)
      [] s = "CAP_IPC_OWNER" -> Ok_cap(CAP_IPC_OWNER)
      [] s = "CAP_SYS_MODULE" -> Ok_cap(CAP_SYS_MODULE)
      [] s = "CAP_SYS_RAWIO" -> Ok_cap(CAP_SYS_RAWIO)
      [] s = "CAP_SYS_CHROOT" -> Ok_cap(CAP_SYS_CHROOT)
      [] s = "CAP_SYS_PTRACE" -> Ok_cap(CAP_SYS_PTRACE)
      [] s = "CAP_SYS_PACCT" -> Ok_cap(CAP_SYS_PACCT)
      [] s = "CAP_SYS_ADMIN" -> Ok_cap(CAP_SYS_ADMIN)
      [] s = "CAP_SYS_BOOT" -> Ok_cap(CAP_SYS_BOOT)
      [] s = "CAP_SYS_NICE" -> Ok_cap(CAP_SYS_NICE)
      [] s = "CAP_SYS_RESOURCE" -> Ok_cap(CAP_SYS_RESOURCE)
      [] s = "CAP_SYS_TIME" -> Ok_cap(CAP_SYS_TIME)
      [] s = "CAP_SYS_TTY_CONFIG" -> Ok_cap(CAP_SYS_TTY_CONFIG)
      [] s = "CAP_MKNOD" -> Ok_cap(CAP_MKNOD)
      [] s = "CAP_LEASE" -> Ok_cap(CAP_LEASE)
      [] s = "CAP_AUDIT_WRITE" -> Ok_cap(CAP_AUDIT_WRITE)
      [] s = "CAP_AUDIT_CONTROL" -> Ok_cap(CAP_AUDIT_CONTROL)
      [] s = "CAP_SETFCAP" -> Ok_cap(CAP_SETFCAP)
      [] s = "CAP_MAC_OVERRIDE" -> Ok_cap(CAP_MAC_OVERRIDE)
      [] s = "CAP_MAC_ADMIN" -> Ok_cap(CAP_MAC_ADMIN)
      [] s = "CAP_SYSLOG" -> Ok_cap(CAP_SYSLOG)
      [] s = "CAP_WAKE_ALARM" -> Ok_cap(CAP_WAKE_ALARM)
      [] s = "CAP_BLOCK_SUSPEND" -> Ok_cap(CAP_BLOCK_SUSPEND)
      [] s = "CAP_AUDIT_READ" -> Ok_cap(CAP_AUDIT_READ)
      [] OTHER -> Err_InvalidCapName(s)

\* A Display mutant: CAP_MKNOD printed under the name its doc comment uses.
to_string_sys_mknod(c) == IF c = CAP_MKNOD THEN "CAP_SYS_MKNOD" ELSE fmt(c)

\* c.to_string(): what Display writes.
to_string(c) == fmt(c)

\* A FromStr mutant: the fallback arm yields a capability instead of the error.
parse_default(s) == IF from_str(s).kind = "Ok" THEN from_str(s) ELSE Ok_cap(CAP_CHOWN)

\* name.parse::<Capability>(): FromStr::from_str.
parse(s) == from_str(s)

(***************************************************************************)
(* Option<i32>, CapSet and the results of the public operations.           *)
(***************************************************************************)
None == [some |-> FALSE]

Some(x) == [some |-> TRUE, v |-> x]

unwrap_or(o, d) == IF o.some THEN o.v ELSE d

CapSet == {"Ambient", "Bounding", "Effective", "Inheritable", "Permitted"}

PosixSets == {"Effective", "Inheritable", "Permitted"}

Ok_unit == [kind |-> "Ok"]

Ok_bool(b) == [kind |-> "Ok", val |-> b]

Ok_set(s) == [kind |-> "Ok", val |-> s]

\* bail!(msg): an error carrying only a message.
Err_msg(m) == [kind |-> "Msg", msg |-> m]

\* A failed syscall, with the OS error code.
Err_sys(e) == [kind |-> "Sys", errno |-> e]

Unsupported == Err_msg("operation not supported")

\* What a call leaves: the kernel state, the result, the number of syscalls
\* it issued, and (for ambient::set only) the capabilities it has still to
\* raise.
Done(kk, r, n) == [k |-> kk, res |-> r, sys |-> n, todo |-> {}]

Pending(kk, s, n) == [k |-> kk, res |-> [kind |-> "Pending"], sys |-> n, todo |-> s]

\* bail! in the dispatch layer: the error, with nothing called.
bail(kk, m) == Done(kk, Err_msg(m), 0)

(***************************************************************************)
(* The kernel.  Thread 0 is the calling thread (a thread id of 0 names the *)
(* caller); thread 1 is another live thread; no other thread id exists.    *)
(* A capability set is held as the set of its bit positions.               *)
(***************************************************************************)
NCaps == 2

\* The capabilities the kernel state ranges over: CAP_SETPCAP, which the
\* kernel's own rules consult, and the NCaps - 1 capabilities of lowest index.
ModelCaps == {c \in all : c = CAP_SETPCAP \/ c < NCaps - 1}

Threads == {0, 1}

SysOk(kk) == [ok |-> TRUE, k |-> kk]

SysErr(e) == [ok |-> FALSE, errno |-> e]

\* capget(2): the three POSIX sets of thread t.
sys_capget(kk, t) ==
    IF t \notin Threads THEN SysErr("ESRCH")
    ELSE [ok |-> TRUE, data |-> [s \in PosixSets |-> kk[t][s]]]

\* capset(2): all three POSIX sets of the calling thread at once.  The kernel
\* lets a thread change no thread but itself, lets Permitted only shrink,
\* keeps Effective within Permitted, caps what Inheritable may gain, and
\* keeps Ambient within Permitted and Inheritable.
sys_capset(kk, t, data) ==
    IF t # 0 THEN SysErr("EPERM")
    ELSE IF /\ data["Permitted"] \subseteq kk[0]["Permitted"]
            /\ data["Effective"] \subseteq data["Permitted"]
            /\ data["Inheritable"] \subseteq (kk[0]["Inheritable"] \cup kk[0]["Bounding"])
            /\ \/ CAP_SETPCAP \in kk[0]["Effective"]
               \/ data["Inheritable"] \subseteq (kk[0]["Inheritable"] \cup kk[0]["Permitted"])
    THEN SysOk([kk EXCEPT ![0] =
                  [s \in CapSet |->
                     IF s \in PosixSets THEN data[s]
                     ELSE IF s = "Ambient"
                          THEN kk[0]["Ambient"] \cap data["Permitted"] \cap data["Inheritable"]
                          ELSE kk[0][s]]])
    ELSE SysErr("EPERM")

\* prctl(PR_CAP_AMBIENT, PR_CAP_AMBIENT_IS_SET, i)
prctl_ambient_is_set(kk, i) == i \in kk[0]["Ambient"]

\* prctl(PR_CAP_AMBIENT, PR_CAP_AMBIENT_RAISE, i): the capability must be
\* both permitted and inheritable.
prctl_ambient_raise(kk, i) ==
    IF i \in kk[0]["Permitted"] /\ i \in kk[0]["Inheritable"]
    THEN SysOk([kk EXCEPT ![0]["Ambient"] = @ \cup {i}])
    ELSE SysErr("EPERM")

\* prctl(PR_CAP_AMBIENT, PR_CAP_AMBIENT_LOWER, i)
prctl_ambient_lower(kk, i) == SysOk([kk EXCEPT ![0]["Ambient"] = @ \ {i}])

\* prctl(PR_CAP_AMBIENT, PR_CAP_AMBIENT_CLEAR_ALL)
prctl_ambient_clear_all(kk) == SysOk([kk EXCEPT ![0]["Ambient"] = {}])

\* prctl(PR_CAPBSET_READ, i)
prctl_capbset_read(kk, i) == i \in kk[0]["Bounding"]

\* prctl(PR_CAPBSET_DROP, i): needs CAP_SETPCAP in the Effective set.
prctl_capbset_drop(kk, i) ==
    IF CAP_SETPCAP \in kk[0]["Effective"]
    THEN SysOk([kk EXCEPT ![0]["Bounding"] = @ \ {i}])
    ELSE SysErr("EPERM")

(***************************************************************************)
(* The POSIX-sets backend (mod base): every write reads the three sets,    *)
(* changes one, and writes the three back.                                 *)
(***************************************************************************)
\* The bits of a capability collection.
bits(value) == {index(c) : c \in value}

\* The known capabilities among the bits of a set.
decode(b) == {c \in all : index(c) \in b}

\* The version probe: a header-only capget, which reports the kernel's
\* preferred version and reads no thread's state.
sys_capget_probe(kk) == [ok |-> TRUE]

\* The read every operation of the backend starts with: probe, then query.
base_get(kk, t) ==
    IF sys_capget_probe(kk).ok THEN sys_capget(kk, t) ELSE SysErr("EINVAL")

\* The write half of set, clear, raise and drop, after the probe and the read.
base_write(kk, t, data) ==
    LET s == sys_capset(kk, t, data)
    IN  IF s.ok THEN Done(s.k, Ok_unit, 3) ELSE Done(kk, Err_sys(s.errno), 3)

base_has_cap(kk, t, cset, cap) ==
    LET g == base_get(kk, t)
    IN  IF g.ok THEN Done(kk, Ok_bool(index(cap) \in g.data[cset]), 2)
        ELSE Done(kk, Err_sys(g.errno), 2)

base_read(kk, t, cset) ==
    LET g == base_get(kk, t)
    IN  IF g.ok THEN Done(kk, Ok_set(decode(g.data[cset])), 2)
        ELSE Done(kk, Err_sys(g.errno), 2)

base_set(kk, t, cset, value) ==
    LET g == base_get(kk, t)
    IN  IF g.ok THEN base_write(kk, t, [g.data EXCEPT ![cset] = bits(value)])
        ELSE Done(kk, Err_sys(g.errno), 2)

base_clear(kk, t, cset) ==
    LET g == base_get(kk, t)
    IN  IF g.ok THEN base_write(kk, t, [g.data EXCEPT ![cset] = {}])
        ELSE Done(kk, Err_sys(g.errno), 2)

base_raise(kk, t, cset, cap) ==
    LET g == base_get(kk, t)
    IN  IF g.ok THEN base_write(kk, t, [g.data EXCEPT ![cset] = @ \cup {index(cap)}])
        ELSE Done(kk, Err_sys(g.errno), 2)

base_drop(kk, t, cset, cap) ==
    LET g == base_get(kk, t)
    IN  IF g.ok THEN base_write(kk, t, [g.data EXCEPT ![cset] = @ \ {index(cap)}])
        ELSE Done(kk, Err_sys(g.errno), 2)

(***************************************************************************)
(* The Ambient backend (mod ambient): one control request per capability.  *)
(***************************************************************************)
ambient_has_cap(kk, cap) == Done(kk, Ok_bool(prctl_ambient_is_set(kk, index(cap))), 1)

ambient_read(kk) ==
    Done(kk, Ok_set({c \in all : prctl_ambient_is_set(kk, index(c))}), Cardinality(all))

ambient_raise(kk, cap) ==
    LET r == prctl_ambient_raise(kk, index(cap))
    IN  IF r.ok THEN Done(r.k, Ok_unit, 1) ELSE Done(kk, Err_sys(r.errno), 1)

ambient_drop(kk, cap) ==
    LET r == prctl_ambient_lower(kk, index(cap))
    IN  IF r.ok THEN Done(r.k, Ok_unit, 1) ELSE Done(kk, Err_sys(r.errno), 1)

ambient_clear(kk) ==
    LET r == prctl_ambient_clear_all(kk)
    IN  IF r.ok THEN Done(r.k, Ok_unit, 1) ELSE Done(kk, Err_sys(r.errno), 1)

\* ambient::set without its clear-all request.
ambient_set_no_clear(kk, value) ==
    IF value = {} THEN Done(kk, Ok_unit, 0) ELSE Pending(kk, value, 0)

\* ambient::set, up to its first raise: the clear-all request.
ambient_set(kk, value) ==
    LET r == prctl_ambient_clear_all(kk)
    IN  IF ~r.ok THEN Done(kk, Err_sys(r.errno), 1)
        ELSE IF value = {} THEN Done(r.k, Ok_unit, 1)
        ELSE Pending(r.k, value, 1)

\* ambient::set, one turn of its loop: raise cap; rest is still to raise.
\* A failed raise ends the call and undoes nothing.
ambient_set_step(kk, cap, rest) ==
    LET r == prctl_ambient_raise(kk, index(cap))
    IN  IF ~r.ok THEN Done(kk, Err_sys(r.errno), 1)
        ELSE IF rest = {} THEN Done(r.k, Ok_unit, 1)
        ELSE Pending(r.k, rest, 1)

(***************************************************************************)
(* The Bounding backend (mod bounding): probe and drop, one by one.        *)
(***************************************************************************)
bounding_has_cap(kk, cap) == Done(kk, Ok_bool(prctl_capbset_read(kk, index(cap))), 1)

bounding_read(kk) ==
    Done(kk, Ok_set({c \in all : prctl_capbset_read(kk, index(c))}), Cardinality(all))

bounding_drop(kk, cap) ==
    LET r == prctl_capbset_drop(kk, index(cap))
    IN  IF r.ok THEN Done(r.k, Ok_unit, 1) ELSE Done(kk, Err_sys(r.errno), 1)

RECURSIVE bounding_clear_from(_, _, _)
\* bounding::clear: drop every known capability, stopping at the first failure;
\* n counts the drops issued so far.
bounding_clear_from(kk, rest, n) ==
    IF rest = {} THEN Done(kk, Ok_unit, n)
    ELSE LET c == CHOOSE x \in rest : TRUE
             r == prctl_capbset_drop(kk, index(c))
         IN  IF r.ok THEN bounding_clear_from(r.k, rest \ {c}, n + 1)
             ELSE Done(kk, Err_sys(r.errno), n + 1)

bounding_clear(kk) == bounding_clear_from(kk, all, 0)

(***************************************************************************)
(* The dispatch layer (src/lib.rs): one entry point per operation.  Each   *)
(* takes the kernel state it acts on and returns what the call leaves.     *)
(* The mutants that precede an entry point are that entry point with one   *)
(* plausible slip, used to show that a property depends on it.             *)
(***************************************************************************)
\* has_cap without the current-thread guard on the Ambient arm.
has_cap_any_tid(kk, tid, cset, cap) ==
    LET t == unwrap_or(tid, 0)
    IN  IF cset = "Ambient" THEN ambient_has_cap(kk, cap)
        ELSE IF cset = "Bounding" /\ t = 0 THEN bounding_has_cap(kk, cap)
        ELSE IF cset \in PosixSets THEN base_has_cap(kk, t, cset, cap)
        ELSE bail(kk, "operation not supported")

has_cap(kk, tid, cset, cap) ==
    LET t == unwrap_or(tid, 0)
    IN  IF cset = "Ambient" /\ t = 0 THEN ambient_has_cap(kk, cap)
        ELSE IF cset = "Bounding" /\ t = 0 THEN bounding_has_cap(kk, cap)
        ELSE IF cset \in {"Effective", "Inheritable", "Permitted"}
             THEN base_has_cap(kk, t, cset, cap)
        ELSE bail(kk, "operation not supported")

read(kk, tid, cset) ==
    LET t == unwrap_or(tid, 0)
    IN  IF cset = "Ambient" /\ t = 0 THEN ambient_read(kk)
        ELSE IF cset = "Bounding" /\ t = 0 THEN bounding_read(kk)
        ELSE IF cset \in {"Effective", "Inheritable", "Permitted"}
             THEN base_read(kk, t, cset)
        ELSE bail(kk, "operation not supported")

\* set with the POSIX arm always writing the Effective set.
set_wrong_set(kk, tid, cset, value) ==
    LET t == unwrap_or(tid, 0)
    IN  IF cset = "Ambient" /\ t = 0 THEN ambient_set(kk, value)
        ELSE IF cset \in PosixSets THEN base_set(kk, t, "Effective", value)
        ELSE bail(kk, "operation not supported")

\* set treating Bounding as clear-then-raise, the raise being what fails.
set_clear_then_bail(kk, tid, cset, value) ==
    LET t == unwrap_or(tid, 0)
    IN  IF cset = "Ambient" /\ t = 0 THEN ambient_set(kk, value)
        ELSE IF cset = "Bounding" /\ t = 0
             THEN [bounding_clear(kk) EXCEPT !.res = Unsupported]
        ELSE IF cset \in PosixSets THEN base_set(kk, t, cset, value)
        ELSE bail(kk, "operation not supported")

set(kk, tid, cset, value) ==
    LET t == unwrap_or(tid, 0)
    IN  IF cset = "Ambient" /\ t = 0 THEN ambient_set(kk, value)
        ELSE IF cset \in {"Effective", "Inheritable", "Permitted"}
             THEN base_set(kk, t, cset, value)
        ELSE bail(kk, "operation not supported")

clear(kk, tid, cset) ==
    LET t == unwrap_or(tid, 0)
    IN  IF cset = "Ambient" /\ t = 0 THEN ambient_clear(kk)
        ELSE IF cset = "Bounding" /\ t = 0 THEN bounding_clear(kk)
        ELSE IF cset \in {"Effective", "Permitted", "Inheritable"}
             THEN base_clear(kk, t, cset)
        ELSE bail(kk, "operation not supported")

\* raise with Bounding sharing the Ambient arm.
raise_bounding(kk, tid, cset, cap) ==
    LET t == unwrap_or(tid, 0)
    IN  IF cset \in {"Ambient", "Bounding"} /\ t = 0 THEN ambient_raise(kk, cap)
        ELSE IF cset \in PosixSets THEN base_raise(kk, t, cset, cap)
        ELSE bail(kk, "operation not supported")

\* raise written as a set of the one capability.
raise_as_set(kk, tid, cset, cap) ==
    LET t == unwrap_or(tid, 0)
    IN  IF cset = "Ambient" /\ t = 0 THEN ambient_raise(kk, cap)
        ELSE IF cset \in PosixSets THEN base_set(kk, t, cset, {cap})
        ELSE bail(kk, "operation not supported")

raise(kk, tid, cset, cap) ==
    LET t == unwrap_or(tid, 0)
    IN  IF cset = "Ambient" /\ t = 0 THEN ambient_raise(kk, cap)
        ELSE IF cset \in {"Effective", "Permitted", "Inheritable"}
             THEN base_raise(kk, t, cset, cap)
        ELSE bail(kk, "operation not supported")

\* drop with the POSIX arm calling the raise of the backend.
drop_as_raise(kk, tid, cset, cap) ==
    LET t == unwrap_or(tid, 0)
    IN  IF cset = "Ambient" /\ t = 0 THEN ambient_drop(kk, cap)
        ELSE IF cset = "Bounding" /\ t = 0 THEN bounding_drop(kk, cap)
        ELSE IF cset \in PosixSets THEN base_raise(kk, t, cset, cap)
        ELSE bail(kk, "operation not supported")

\* drop with the Bounding arm calling the Ambient backend.
drop_bounding_as_ambient(kk, tid, cset, cap) ==
    LET t == unwrap_or(tid, 0)
    IN  IF cset \in {"Ambient", "Bounding"} /\ t = 0 THEN ambient_drop(kk, cap)
        ELSE IF cset \in PosixSets THEN base_drop(kk, t, cset, cap)
        ELSE bail(kk, "operation not supported")

drop(kk, tid, cset, cap) ==
    LET t == unwrap_or(tid, 0)
    IN  IF cset = "Ambient" /\ t = 0 THEN ambient_drop(kk, cap)
        ELSE IF cset = "Bounding" /\ t = 0 THEN bounding_drop(kk, cap)
        ELSE IF cset \in {"Effective", "Permitted", "Inheritable"}
             THEN base_drop(kk, t, cset, cap)
        ELSE bail(kk, "operation not supported")

(***************************************************************************)
(* The state machine: a caller on thread 0 makes one public call after     *)
(* another.  ambient::set is the one call taken syscall by syscall: the    *)
(* states with pc = "ambient_set" are what the thread's capability state   *)
(* is between two of its syscalls, where a signal handler of the same      *)
(* thread can run, read it and change it.                                  *)
(***************************************************************************)
\* The thread targets a caller passes: None, the caller itself, thread 1,
\* and a thread that does not exist.
TidArgs == {None} \cup {Some(t) : t \in {0, 1, 2}}

NoCall == [call |-> [op |-> "none"], res |-> Ok_unit, sys |-> 0]

\* Where the caller stands once a call has left result r.
After(r) == IF r.kind = "Pending" THEN "ambient_set" ELSE "returned"

InitKernel ==
    [t \in Threads |->
       IF t = 0
       THEN [s \in CapSet |->
               IF s \in {"Effective", "Permitted", "Bounding"} THEN ModelCaps ELSE {}]
       ELSE [s \in CapSet |->
               IF s \in {"Permitted", "Bounding"} THEN ModelCaps ELSE {CAP_CHOWN}]]

InitCalls ==
    /\ k = InitKernel
    /\ pre = InitKernel
    /\ last = NoCall
    /\ pc = "idle"
    /\ todo = {}
    /\ mutated = FALSE

Init == InitCalls /\ conv = [phase |-> "idle"]

\* A top-level call c that leaves out.
Begin(c, out) ==
    /\ pc = "idle"
    /\ pre' = k
    /\ k' = out.k
    /\ last' = [call |-> c, res |-> out.res, sys |-> out.sys]
    /\ pc' = After(out.res)
    /\ todo' = out.todo
    /\ mutated' = FALSE
    /\ UNCHANGED conv

HasCap ==
    \E tid \in TidArgs, cset \in CapSet, cap \in ModelCaps :
        Begin([op |-> "has_cap", tid |-> tid, cset |-> cset, cap |-> cap],
              has_cap(k, tid, cset, cap))

Read ==
    \E tid \in TidArgs, cset \in CapSet :
        Begin([op |-> "read", tid |-> tid, cset |-> cset], read(k, tid, cset))

Set ==
    \E tid \in TidArgs, cset \in CapSet, value \in SUBSET ModelCaps :
        Begin([op |-> "set", tid |-> tid, cset |-> cset, value |-> value],
              set(k, tid, cset, value))

Clear ==
    \E tid \in TidArgs, cset \in CapSet :
        Begin([op |-> "clear", tid |-> tid, cset |-> cset], clear(k, tid, cset))

Raise ==
    \E tid \in TidArgs, cset \in CapSet, cap \in ModelCaps :
        Begin([op |-> "raise", tid |-> tid, cset |-> cset, cap |-> cap],
              raise(k, tid, cset, cap))

Drop ==
    \E tid \in TidArgs, cset \in CapSet, cap \in ModelCaps :
        Begin([op |-> "drop", tid |-> tid, cset |-> cset, cap |-> cap],
              drop(k, tid, cset, cap))

\* ambient::set raises one more capability of its collection, in whatever
\* order the hash set yields them, and returns after the last or at a failure.
AmbientSetStep ==
    /\ pc = "ambient_set"
    /\ \E cap \in todo :
         LET out == ambient_set_step(k, cap, todo \ {cap})
         IN  /\ k' = out.k
             /\ last' = [last EXCEPT !.res = out.res, !.sys = @ + out.sys]
             /\ pc' = After(out.res)
             /\ todo' = out.todo
    /\ UNCHANGED <<pre, mutated, conv>>

\* Between two syscalls of ambient::set a signal handler of the thread raises
\* or drops an Ambient capability through the public interface.
HandlerMutate ==
    /\ pc = "ambient_set"
    /\ \E cap \in ModelCaps, up \in BOOLEAN :
         LET out == IF up THEN raise(k, None, "Ambient", cap)
                    ELSE drop(k, None, "Ambient", cap)
         IN  /\ out.res.kind = "Ok"
             /\ out.k # k
             /\ k' = out.k
    /\ mutated' = TRUE
    /\ UNCHANGED <<pre, last, pc, todo, conv>>

\* The caller takes the result of its call and goes on to the next one.
Return ==
    /\ pc = "returned"
    /\ pc' = "idle"
    /\ last' = NoCall
    /\ pre' = k
    /\ mutated' = FALSE
    /\ UNCHANGED <<k, todo, conv>>

Next ==
    \/ HasCap
    \/ Read
    \/ Set
    \/ Clear
    \/ Raise
    \/ Drop
    \/ AmbientSetStep
    \/ HandlerMutate
    \/ Return

Spec == Init /\ [][Next]_vars

(***************************************************************************)
(* The conversions, exercised on every capability and on a set of strings. *)
(***************************************************************************)
\* Strings that name no capability of the enumeration.
BadNames ==
    {"CAP_FOO", "CAP_BAR", "", "cap_chown", "CHOWN", "CAP_", "CAP_CHOWN ",
     "CAP_SYS_MKNOD", "CAP_PERFMON", "CAP_BPF", "CAP_CHECKPOINT_RESTORE",
     "Capability::CAP_CHOWN", "0"}

\* The strings handed to the parser: every name the parser accepts per its
\* match, and the strings above.
Inputs == {fmt(c) : c \in all} \cup BadNames

Format ==
    /\ conv.phase = "idle"
    /\ \E c \in all : conv' = [phase |-> "formatted", cap |-> c, name |-> to_string(c)]
    /\ UNCHANGED <<k, pre, last, pc, todo, mutated>>

ParseBack ==
    /\ conv.phase = "formatted"
    /\ conv' = [phase |-> "roundtrip", cap |-> conv.cap, name |-> conv.name,
                res |-> parse(conv.name)]
    /\ UNCHANGED <<k, pre, last, pc, todo, mutated>>

ParseInput ==
    /\ conv.phase = "idle"
    /\ \E s \in Inputs : conv' = [phase |-> "parsed", name |-> s, res |-> parse(s)]
    /\ UNCHANGED <<k, pre, last, pc, todo, mutated>>

NextConv ==
    \/ Format
    \/ ParseBack
    \/ ParseInput

SpecConv == Init /\ [][NextConv]_vars

(***************************************************************************)
(* Properties.                                                             *)
(***************************************************************************)
\* The last call targets the calling thread: tid is None or Some(0).
OnCurrent == unwrap_or(last.call.tid, 0) = 0

\* The last call names a thread other than the caller: Some(t) with t # 0.
OnOther == last.call.tid.some /\ last.call.tid.v # 0

Called(op) == last.call.op = op

Succeeded == pc = "returned" /\ last.res.kind = "Ok"

\* C1: on Ambient and Bounding, every operation whose thread target is
\* Some(t) with t # 0 fails with the unsupported-operation error, whatever
\* its capability or collection; with None or Some(0) the operations the
\* set supports do not fail with it.
C1_OtherThreadUnsupported ==
    (~Called("none") /\ last.call.cset \in {"Ambient", "Bounding"}) =>
        /\ OnOther => last.res = Unsupported
        /\ (OnCurrent /\ ~(last.call.cset = "Bounding" /\ last.call.op \in {"set", "raise"}))
             => last.res # Unsupported

C1_Witness ==
    /\ Called("clear")
    /\ last.call.cset = "Bounding"
    /\ last.call.tid = Some(1)
    /\ last.res = Unsupported

\* C2: raise and set on Bounding fail with the unsupported-operation error
\* for every thread target, capability and collection.
C2_BoundingRaiseSetUnsupported ==
    (last.call.op \in {"raise", "set"} /\ last.call.cset = "Bounding") =>
        last.res = Unsupported

C2_Witness ==
    /\ Called("set")
    /\ last.call.cset = "Bounding"
    /\ last.call.tid = None
    /\ last.call.value = {}
    /\ last.res = Unsupported

\* C3: once set(tid, cset, value) has succeeded and nothing else has changed
\* the state, read(tid, cset) returns exactly value.
C3_SetThenRead ==
    (Called("set") /\ Succeeded /\ ~mutated) =>
        /\ last.call.cset \in PosixSets \/ (last.call.cset = "Ambient" /\ OnCurrent)
        /\ read(k, last.call.tid, last.call.cset).res = Ok_set(last.call.value)

C3_Witness ==
    /\ Called("set")
    /\ Succeeded
    /\ ~mutated
    /\ last.call.cset = "Ambient"
    /\ last.call.value = ModelCaps
    /\ pre[0]["Ambient"] \notin {{}, ModelCaps}

\* C4: on the Effective set of the calling thread, a capability in Permitted
\* and not in Effective is reported absent; after a successful raise it is
\* reported present; after a successful drop read does not hold it; after a
\* successful clear read is empty.
C4_EffectiveReflectsMutation ==
    /\ \A c \in ModelCaps :
         (c \in k[0]["Permitted"] /\ c \notin k[0]["Effective"]) =>
             has_cap(k, None, "Effective", c).res = Ok_bool(FALSE)
    /\ (Succeeded /\ OnCurrent /\ last.call.cset = "Effective") =>
         /\ Called("raise") =>
              has_cap(k, None, "Effective", last.call.cap).res = Ok_bool(TRUE)
         /\ Called("drop") =>
              /\ read(k, None, "Effective").res.kind = "Ok"
              /\ last.call.cap \notin read(k, None, "Effective").res.val
         /\ Called("clear") => read(k, None, "Effective").res = Ok_set({})

C4_Witness ==
    /\ Called("raise")
    /\ Succeeded
    /\ last.call.tid = None
    /\ last.call.cset = "Effective"
    /\ last.call.cap \in pre[0]["Permitted"]
    /\ has_cap(pre, None, "Effective", last.call.cap).res = Ok_bool(FALSE)
    /\ has_cap(k, None, "Effective", last.call.cap).res = Ok_bool(TRUE)

\* C5: the Bounding set only shrinks.  A successful drop(None, Bounding, c)
\* leaves has_cap(None, Bounding, c) false; a capability has_cap reports
\* absent from Bounding is reported absent after every further step; and
\* every raise or set on Bounding is rejected as unsupported.
C5_BoundingOnlyShrinks ==
    [][ /\ \A c \in ModelCaps :
             has_cap(k, None, "Bounding", c).res = Ok_bool(FALSE) =>
                 has_cap(k', None, "Bounding", c).res = Ok_bool(FALSE)
        /\ (last'.call.op = "drop" /\ last'.call.cset = "Bounding" /\ last'.res.kind = "Ok") =>
             has_cap(k', None, "Bounding", last'.call.cap).res = Ok_bool(FALSE)
        /\ (last'.call.op \in {"raise", "set"} /\ last'.call.cset = "Bounding") =>
             last'.res = Unsupported
      ]_vars

C5_Witness ==
    /\ Called("drop")
    /\ Succeeded
    /\ last.call.tid = None
    /\ last.call.cset = "Bounding"
    /\ has_cap(pre, None, "Bounding", last.call.cap).res = Ok_bool(TRUE)
    /\ has_cap(k, None, "Bounding", last.call.cap).res = Ok_bool(FALSE)

\* C6: for every capability of all(), parsing what Display writes for it
\* gives the capability back.
C6_RoundTrip ==
    conv.phase = "roundtrip" => conv.res = Ok_cap(conv.cap)

C6_Witness ==
    /\ conv.phase = "roundtrip"
    /\ conv.cap = CAP_AUDIT_READ
    /\ conv.name = "CAP_AUDIT_READ"
    /\ conv.res = Ok_cap(CAP_AUDIT_READ)

\* C7: parsing a string that is the name of no capability of the
\* enumeration fails with the invalid-capability-name error.
C7_ParseInvalid ==
    (conv.phase = "parsed" /\ conv.name \notin {to_string(c) : c \in all}) =>
        conv.res = Err_InvalidCapName(conv.name)

C7_Witness ==
    /\ conv.phase = "parsed"
    /\ conv.name = "CAP_FOO"
    /\ conv.res = Err_InvalidCapName("CAP_FOO")

\* C8: on Effective, Inheritable and Permitted a successful raise adds
\* exactly its capability and a successful drop removes exactly it; the
\* other two POSIX sets of the thread are as they were.
C8_RaiseDropFrame ==
    (Succeeded /\ last.call.op \in {"raise", "drop"} /\ last.call.cset \in PosixSets) =>
        LET t == unwrap_or(last.call.tid, 0)
        IN  /\ t \in Threads
            /\ k[t][last.call.cset] =
                 IF Called("raise") THEN pre[t][last.call.cset] \cup {last.call.cap}
                 ELSE pre[t][last.call.cset] \ {last.call.cap}
            /\ \A s \in PosixSets \ {last.call.cset} : k[t][s] = pre[t][s]

C8_Witness ==
    /\ Called("raise")
    /\ Succeeded
    /\ last.call.cset = "Inheritable"
    /\ last.call.cap \notin pre[0]["Inheritable"]
    /\ pre[0]["Inheritable"] # {}
    /\ pre[0]["Effective"] # {}
    /\ k[0]["Inheritable"] = ModelCaps

\* C9: set(None, Ambient, value) is a clear-all followed by one raise per
\* capability of value: between two of its syscalls, and with no handler
\* having changed the state, the Ambient set holds exactly the capabilities
\* of value raised so far, a strict subset of value.
C9_AmbientSetStepwise ==
    (pc = "ambient_set" /\ ~mutated) =>
        /\ Called("set") /\ last.call.cset = "Ambient" /\ OnCurrent
        /\ todo # {} /\ todo \subseteq last.call.value
        /\ read(k, None, "Ambient").res = Ok_set(last.call.value \ todo)
        /\ last.sys = 1 + Cardinality(last.call.value \ todo)

C9_Witness ==
    /\ pc = "ambient_set"
    /\ ~mutated
    /\ read(k, None, "Ambient").res.val # {}
    /\ read(k, None, "Ambient").res.val # read(pre, None, "Ambient").res.val
    /\ read(k, None, "Ambient").res.val # last.call.value

\* C10: a call that fails with the unsupported-operation error has issued no
\* syscall and leaves every capability set of every thread as it was.
C10_UnsupportedChangesNothing ==
    last.res = Unsupported => (last.sys = 0 /\ k = pre)

C10_Witness ==
    /\ Called("set")
    /\ last.call.cset = "Bounding"
    /\ last.call.tid = None
    /\ last.res = Unsupported
    /\ k[0]["Bounding"] = ModelCaps
====
